---- MODULE Spec2Model ----
(***************************************************************************)
(* Model of src/main.py: an account API over one in-memory map, users_db,  *)
(* with four handlers (signup, get_user_info, update_user_info,            *)
(* close_account) behind HTTP Basic authentication (authenticate_user).    *)
(*                                                                         *)
(* Strings are sequences of Unicode code points, so that the length and    *)
(* pattern constraints of the request schemas are computed, not assumed.   *)
(* An Optional[str] is the empty set (None) or a singleton set.            *)
(***************************************************************************)
EXTENDS Integers, Sequences, FiniteSets, TLC

VARIABLES users_db, request, response, nreq, calls

vars == <<users_db, request, response, nreq, calls>>

\* Number of requests served in one behaviour.
MaxRequests == 3

\* Number of requests received in one behaviour of the interleaved
\* specification.
MaxCalls == 3

----------------------------------------------------------------------------
\* Optional values and string helpers

None == {}

Some(v) == {v}

Value(o) == CHOOSE v \in o : TRUE

Rep(c, n) == [i \in 1..n |-> c]

----------------------------------------------------------------------------
\* Schema constants (Field(...) arguments)

UserIdMinLen == 6

UserIdMaxLen == 20

PasswordMinLen == 8

PasswordMaxLen == 20

NicknameMaxLen == 30

CommentMaxLen == 100

\* r"^[a-zA-Z0-9_]+$"
IsAlnum_underscore(c) == (c >= 48 /\ c <= 57) \/ (c >= 65 /\ c <= 90) \/ (c >= 97 /\ c <= 122) \/ c = 95

\* r"^[a-zA-Z0-9]+$"
IsAlnum(c) == (c >= 48 /\ c <= 57) \/ (c >= 65 /\ c <= 90) \/ (c >= 97 /\ c <= 122)

\* r"^[!-~]+$"
IsGraph(c) == c >= 33 /\ c <= 126

UserIdPattern(s) == Len(s) >= 1 /\ \A i \in 1..Len(s) : IsAlnum(s[i])

PasswordPattern(s) == Len(s) >= 1 /\ \A i \in 1..Len(s) : IsGraph(s[i])

UserIdValid(s) == Len(s) >= UserIdMinLen /\ Len(s) <= UserIdMaxLen /\ UserIdPattern(s)

PasswordValid(s) == Len(s) >= PasswordMinLen /\ Len(s) <= PasswordMaxLen /\ PasswordPattern(s)

SignupRequestValid(user_id, password) == UserIdValid(user_id) /\ PasswordValid(password)

NicknameValid(nickname) == nickname = None \/ Len(Value(nickname)) <= NicknameMaxLen

CommentValid(comment) == comment = None \/ Len(Value(comment)) <= CommentMaxLen

UserUpdateRequestValid(nickname, comment) == NicknameValid(nickname) /\ CommentValid(comment)

\* check_at_least_one_field that never raises
check_at_least_one_field_pass(nickname, comment) == TRUE

check_at_least_one_field(nickname, comment) == ~(nickname = None /\ comment = None)

----------------------------------------------------------------------------
\* The strings of the source and of the requests

TaroYamada == <<84, 97, 114, 111, 89, 97, 109, 97, 100, 97>>

PaSSwd4TY == <<80, 97, 83, 83, 119, 100, 52, 84, 89>>

TaroNickname == <<12383, 12429, 12540>>

TaroComment == <<20693, 12399, 20803, 27671, 12391, 12377>>

testuser == <<116, 101, 115, 116, 117, 115, 101, 114>>

resurtset == <<114, 101, 115, 117, 114, 116, 115, 101, 116>>

TestNickname == <<84, 101, 115, 116, 32, 85, 115, 101, 114>>

TestComment == <<84, 104, 105, 115, 32, 105, 115, 32, 97, 32, 116, 101, 115, 116, 32, 117, 115, 101, 114, 46>>

\* "user01", "user_1", "passw0rd", "pass w0rd"
user01 == <<117, 115, 101, 114, 48, 49>>

user_1 == <<117, 115, 101, 114, 95, 49>>

passw0rd == <<112, 97, 115, 115, 119, 48, 114, 100>>

pass_w0rd == <<112, 97, 115, 115, 32, 119, 48, 114, 100>>

\* user_id values of POST /signup bodies: a seeded id, ids at the length
\* bounds and one step outside them, and an id with an underscore.
SignupUserIds == {TaroYamada, user01, user_1, Rep(97, UserIdMinLen - 1), Rep(97, UserIdMaxLen), Rep(97, UserIdMaxLen + 1)}

\* password values of POST /signup bodies: at the length bounds and one step
\* outside them, with a space, with a control character (TAB).
SignupPasswords == {PaSSwd4TY, passw0rd, pass_w0rd, Rep(33, PasswordMinLen - 1), Rep(126, PasswordMaxLen), Rep(126, PasswordMaxLen + 1), Rep(112, PasswordMinLen) \o <<9>>}

\* Basic credentials <<username, password>>: the seeded accounts with their
\* passwords, and pairs that are wrong or unknown until a signup makes them
\* right.
Credentials == {<<TaroYamada, PaSSwd4TY>>, <<TaroYamada, passw0rd>>, <<testuser, resurtset>>, <<user01, passw0rd>>}

\* {user_id} path parameters
PathUserIds == {TaroYamada, testuser, user01}

\* PATCH bodies
Nicknames == {None, Some(<<>>), Some(Rep(110, NicknameMaxLen)), Some(Rep(110, NicknameMaxLen + 1))}

Comments == {None, Some(Rep(99, CommentMaxLen)), Some(Rep(99, CommentMaxLen + 1))}

----------------------------------------------------------------------------
\* Responses

NoRequest == [op |-> "none", username |-> <<>>, cred_password |-> <<>>, user_id |-> <<>>, password |-> <<>>, nickname |-> None, comment |-> None]

NoResponse == [status |-> 0, message |-> "", cause |-> "", headers |-> {}, user |-> {}]

Unauthorized == [status |-> 401, message |-> "Authentication failed", cause |-> "", headers |-> {<<"WWW-Authenticate", "Basic">>}, user |-> {}]

\* FastAPI's answer to a body that fails its schema
RequestValidationError == [status |-> 422, message |-> "Unprocessable Entity", cause |-> "", headers |-> {}, user |-> {}]

ErrorResponse(status, message, cause) == [status |-> status, message |-> message, cause |-> cause, headers |-> {}, user |-> {}]

OkResponse(message, user) == [status |-> 200, message |-> message, cause |-> "", headers |-> {}, user |-> user]

----------------------------------------------------------------------------
\* The store

users_db_init == [k \in {TaroYamada, testuser} |-> IF k = TaroYamada THEN [password |-> PaSSwd4TY, nickname |-> TaroNickname, comment |-> Some(TaroComment)] ELSE [password |-> resurtset, nickname |-> TestNickname, comment |-> Some(TestComment)]]

\* Each handler maps the store and its inputs to the store after it and
\* the response.
Result(db, resp) == [db |-> db, resp |-> resp]

\* authenticate_user telling a wrong password from an unknown username
authenticate_user_leaky(db, username, password) ==
    IF username \notin DOMAIN db
    THEN [ok |-> FALSE, user |-> <<>>, resp |-> Unauthorized]
    ELSE IF password # db[username].password
         THEN [ok |-> FALSE, user |-> <<>>, resp |-> [Unauthorized EXCEPT !.message = "Incorrect password"]]
         ELSE [ok |-> TRUE, user |-> username, resp |-> NoResponse]

authenticate_user(db, username, password) ==
    IF username \notin DOMAIN db
    THEN [ok |-> FALSE, user |-> <<>>, resp |-> Unauthorized]
    ELSE IF password # db[username].password
         THEN [ok |-> FALSE, user |-> <<>>, resp |-> Unauthorized]
         ELSE [ok |-> TRUE, user |-> username, resp |-> NoResponse]

\* signup leaving the nickname of the new record empty
signup_empty_nickname(db, user_id, password) ==
    IF user_id \in DOMAIN db
    THEN Result(db, ErrorResponse(400, "Account creation failed", "Already same user_id is used"))
    ELSE Result([k \in DOMAIN db \cup {user_id} |-> IF k = user_id THEN [password |-> password, nickname |-> <<>>, comment |-> None] ELSE db[k]],
                OkResponse("Account successfully created", {[user_id |-> user_id, nickname |-> user_id]}))

\* signup without the duplicate check of line 84
signup_overwrite(db, user_id, password) ==
    Result([k \in DOMAIN db \cup {user_id} |-> IF k = user_id THEN [password |-> password, nickname |-> user_id, comment |-> None] ELSE db[k]],
           OkResponse("Account successfully created", {[user_id |-> user_id, nickname |-> user_id]}))

signup(db, user_id, password) ==
    IF user_id \in DOMAIN db
    THEN Result(db, ErrorResponse(400, "Account creation failed", "Already same user_id is used"))
    ELSE Result([k \in DOMAIN db \cup {user_id} |-> IF k = user_id THEN [password |-> password, nickname |-> user_id, comment |-> None] ELSE db[k]],
                OkResponse("Account successfully created", {[user_id |-> user_id, nickname |-> user_id]}))

\* get_user_info answering for an absent user_id with the default nickname
get_user_info_default(db, user_id, authenticated_user) ==
    IF user_id \notin DOMAIN db
    THEN Result(db, OkResponse("", {[user_id |-> user_id, nickname |-> user_id, comment |-> None]}))
    ELSE Result(db, OkResponse("", {[user_id |-> user_id, nickname |-> db[user_id].nickname, comment |-> db[user_id].comment]}))

\* get_user_info open to the owner only
get_user_info_owner_only(db, user_id, authenticated_user) ==
    IF user_id # authenticated_user
    THEN Result(db, ErrorResponse(403, "No permission", ""))
    ELSE IF user_id \notin DOMAIN db
    THEN Result(db, ErrorResponse(404, "No user found", ""))
    ELSE Result(db, OkResponse("", {[user_id |-> user_id, nickname |-> db[user_id].nickname, comment |-> db[user_id].comment]}))

get_user_info(db, user_id, authenticated_user) ==
    IF user_id \notin DOMAIN db
    THEN Result(db, ErrorResponse(404, "No user found", ""))
    ELSE Result(db, OkResponse("", {[user_id |-> user_id, nickname |-> db[user_id].nickname, comment |-> db[user_id].comment]}))

\* update_record assigning both fields, supplied or not
update_record_assign_all(rec, nickname, comment) ==
    [password |-> rec.password,
     nickname |-> IF nickname # None THEN Value(nickname) ELSE rec.nickname,
     comment |-> comment]

\* update_record writing the nickname over the password
update_record_password(rec, nickname, comment) ==
    [password |-> IF nickname # None THEN Value(nickname) ELSE rec.password,
     nickname |-> IF nickname # None THEN Value(nickname) ELSE rec.nickname,
     comment |-> IF comment # None THEN comment ELSE rec.comment]

update_record(rec, nickname, comment) ==
    [password |-> rec.password,
     nickname |-> IF nickname # None THEN Value(nickname) ELSE rec.nickname,
     comment |-> IF comment # None THEN comment ELSE rec.comment]

\* update_user_info without the ownership check of line 124
update_user_info_no_owner_check(db, user_id, nickname, comment, authenticated_user) ==
    IF user_id \notin DOMAIN db
    THEN Result(db, ErrorResponse(404, "No User found", ""))
    ELSE IF ~check_at_least_one_field(nickname, comment)
    THEN Result(db, ErrorResponse(400, "Update failed", "at least one of nickname, comment is required"))
    ELSE LET rec == update_record(db[user_id], nickname, comment)
         IN Result([db EXCEPT ![user_id] = rec],
                   OkResponse("User successfully updated.", {[user_id |-> user_id, nickname |-> rec.nickname, comment |-> rec.comment]}))

\* update_user_info creating the record when it is absent
update_user_info_upsert(db, user_id, nickname, comment, authenticated_user) ==
    IF user_id # authenticated_user
    THEN Result(db, ErrorResponse(403, "No permission for update", ""))
    ELSE IF ~check_at_least_one_field(nickname, comment)
    THEN Result(db, ErrorResponse(400, "Update failed", "at least one of nickname, comment is required"))
    ELSE LET old == IF user_id \in DOMAIN db THEN db[user_id] ELSE [password |-> <<>>, nickname |-> user_id, comment |-> None]
             rec == update_record(old, nickname, comment)
         IN Result([k \in DOMAIN db \cup {user_id} |-> IF k = user_id THEN rec ELSE db[k]],
                   OkResponse("User successfully updated.", {[user_id |-> user_id, nickname |-> rec.nickname, comment |-> rec.comment]}))

\* update_user_info testing existence (line 127) before ownership (line 124)
update_user_info_exists_first(db, user_id, nickname, comment, authenticated_user) ==
    IF user_id \notin DOMAIN db
    THEN Result(db, ErrorResponse(404, "No User found", ""))
    ELSE IF user_id # authenticated_user
    THEN Result(db, ErrorResponse(403, "No permission for update", ""))
    ELSE IF ~check_at_least_one_field(nickname, comment)
    THEN Result(db, ErrorResponse(400, "Update failed", "at least one of nickname, comment is required"))
    ELSE LET rec == update_record(db[user_id], nickname, comment)
         IN Result([db EXCEPT ![user_id] = rec],
                   OkResponse("User successfully updated.", {[user_id |-> user_id, nickname |-> rec.nickname, comment |-> rec.comment]}))

update_user_info(db, user_id, nickname, comment, authenticated_user) ==
    IF user_id # authenticated_user
    THEN Result(db, ErrorResponse(403, "No permission for update", ""))
    ELSE IF user_id \notin DOMAIN db
    THEN Result(db, ErrorResponse(404, "No User found", ""))
    ELSE IF ~check_at_least_one_field(nickname, comment)
    THEN Result(db, ErrorResponse(400, "Update failed", "at least one of nickname, comment is required"))
    ELSE LET rec == update_record(db[user_id], nickname, comment)
         IN Result([db EXCEPT ![user_id] = rec],
                   OkResponse("User successfully updated.", {[user_id |-> user_id, nickname |-> rec.nickname, comment |-> rec.comment]}))

\* close_account emptying the store
close_account_clear(db, authenticated_user) ==
    IF authenticated_user \in DOMAIN db
    THEN Result([k \in {} |-> db[k]], OkResponse("Account and user successfully removed.", {}))
    ELSE Result(db, ErrorResponse(404, "No user found to remove.", ""))

\* close_account with the test of line 167 inverted
close_account_inverted(db, authenticated_user) ==
    IF authenticated_user \notin DOMAIN db
    THEN Result([k \in DOMAIN db \ {authenticated_user} |-> db[k]], OkResponse("Account and user successfully removed.", {}))
    ELSE Result(db, ErrorResponse(404, "No user found to remove.", ""))

\* close_account answering Success when the record is already gone
close_account_idempotent(db, authenticated_user) ==
    Result([k \in DOMAIN db \ {authenticated_user} |-> db[k]], OkResponse("Account and user successfully removed.", {}))

\* close_account answering Success without deleting the record
close_account_keep(db, authenticated_user) ==
    IF authenticated_user \in DOMAIN db
    THEN Result(db, OkResponse("Account and user successfully removed.", {}))
    ELSE Result(db, ErrorResponse(404, "No user found to remove.", ""))

close_account(db, authenticated_user) ==
    IF authenticated_user \in DOMAIN db
    THEN Result([k \in DOMAIN db \ {authenticated_user} |-> db[k]], OkResponse("Account and user successfully removed.", {}))
    ELSE Result(db, ErrorResponse(404, "No user found to remove.", ""))

----------------------------------------------------------------------------
\* Requests as FastAPI serves them: dependencies (authentication) first,
\* then validation of the body against its schema, then the handler.

ServeSignup(db, user_id, password) ==
    IF ~SignupRequestValid(user_id, password)
    THEN Result(db, RequestValidationError)
    ELSE signup(db, user_id, password)

ServeGet(db, username, cred_password, user_id) ==
    LET auth == authenticate_user(db, username, cred_password)
    IN IF ~auth.ok THEN Result(db, auth.resp)
       ELSE get_user_info(db, user_id, auth.user)

\* update served with each field validated when it is written: a valid
\* nickname is stored before an over-long comment is refused
ServeUpdate_fieldwise(db, username, cred_password, user_id, nickname, comment) ==
    LET auth == authenticate_user(db, username, cred_password)
    IN IF ~auth.ok THEN Result(db, auth.resp)
       ELSE IF ~NicknameValid(nickname) THEN Result(db, RequestValidationError)
       ELSE IF ~CommentValid(comment)
            THEN Result(update_user_info(db, user_id, nickname, None, auth.user).db, RequestValidationError)
       ELSE update_user_info(db, user_id, nickname, comment, auth.user)

ServeUpdate(db, username, cred_password, user_id, nickname, comment) ==
    LET auth == authenticate_user(db, username, cred_password)
    IN IF ~auth.ok THEN Result(db, auth.resp)
       ELSE IF ~UserUpdateRequestValid(nickname, comment) THEN Result(db, RequestValidationError)
       ELSE update_user_info(db, user_id, nickname, comment, auth.user)

ServeClose(db, username, cred_password) ==
    LET auth == authenticate_user(db, username, cred_password)
    IN IF ~auth.ok THEN Result(db, auth.resp)
       ELSE close_account(db, auth.user)

----------------------------------------------------------------------------
\* State machine: one action per route, each request served atomically.

Init ==
    /\ users_db = users_db_init
    /\ request = NoRequest
    /\ response = NoResponse
    /\ nreq = 0
    /\ calls = <<>>

Serve(req, res) ==
    /\ nreq < MaxRequests
    /\ nreq' = nreq + 1
    /\ request' = req
    /\ users_db' = res.db
    /\ response' = res.resp
    /\ UNCHANGED calls

PostSignup ==
    \E user_id \in SignupUserIds, password \in SignupPasswords :
        Serve([NoRequest EXCEPT !.op = "signup", !.user_id = user_id, !.password = password],
              ServeSignup(users_db, user_id, password))

GetUser ==
    \E cred \in Credentials, user_id \in PathUserIds :
        Serve([NoRequest EXCEPT !.op = "get", !.username = cred[1], !.cred_password = cred[2], !.user_id = user_id],
              ServeGet(users_db, cred[1], cred[2], user_id))

PatchUser ==
    \E cred \in Credentials, user_id \in PathUserIds, nickname \in Nicknames, comment \in Comments :
        Serve([NoRequest EXCEPT !.op = "update", !.username = cred[1], !.cred_password = cred[2], !.user_id = user_id, !.nickname = nickname, !.comment = comment],
              ServeUpdate(users_db, cred[1], cred[2], user_id, nickname, comment))

PostClose ==
    \E cred \in Credentials :
        Serve([NoRequest EXCEPT !.op = "close", !.username = cred[1], !.cred_password = cred[2]],
              ServeClose(users_db, cred[1], cred[2]))

Next == PostSignup \/ GetUser \/ PatchUser \/ PostClose

Spec == Init /\ [][Next]_vars

----------------------------------------------------------------------------
\* Interleaved requests.  authenticate_user is a dependency that FastAPI
\* resolves before it calls the handler, so another request can run between
\* the two; a handler body has no await and runs as one step.  calls holds
\* the requests that have passed authentication, in that order: the handler
\* arguments, whether the body has run, and its response.  The field owner
\* records what happened to the record of the authenticated user since the
\* authentication ("present", "deleted" by a close, "recreated" by a signup
\* after that); no handler reads it.

ConcCredentials == {<<TaroYamada, PaSSwd4TY>>, <<TaroYamada, passw0rd>>, <<testuser, resurtset>>}

ConcPayloads == {<<None, None>>, <<Some(Rep(110, NicknameMaxLen)), None>>, <<Some(Rep(110, NicknameMaxLen + 1)), None>>, <<None, Some(Rep(99, CommentMaxLen))>>}

ConcSignups == {<<TaroYamada, passw0rd>>}

Pending(i) == i \in DOMAIN calls /\ calls[i].state = "authenticated"

\* The owner marks after the store changed from db to db2.
MarkOwners(cs, db, db2) ==
    [j \in DOMAIN cs |->
        IF cs[j].state # "authenticated" THEN cs[j]
        ELSE IF cs[j].user \in DOMAIN db /\ cs[j].user \notin DOMAIN db2 THEN [cs[j] EXCEPT !.owner = "deleted"]
        ELSE IF cs[j].user \notin DOMAIN db /\ cs[j].user \in DOMAIN db2 THEN [cs[j] EXCEPT !.owner = "recreated"]
        ELSE cs[j]]

\* A request that is answered in the step that receives it.
Answer(req, res) ==
    /\ nreq < MaxCalls
    /\ nreq' = nreq + 1
    /\ request' = req
    /\ users_db' = res.db
    /\ response' = res.resp
    /\ calls' = MarkOwners(calls, users_db, res.db)

\* A request with credentials: authentication and, for a body, validation;
\* the handler is called in a later step.
Receive(req) ==
    LET auth == authenticate_user(users_db, req.username, req.cred_password)
    IN IF ~auth.ok THEN Answer(req, Result(users_db, auth.resp))
       ELSE IF req.op = "update" /\ ~UserUpdateRequestValid(req.nickname, req.comment)
            THEN Answer(req, Result(users_db, RequestValidationError))
       ELSE /\ nreq < MaxCalls
            /\ nreq' = nreq + 1
            /\ calls' = Append(calls, [req |-> req, user |-> auth.user, state |-> "authenticated", resp |-> NoResponse, owner |-> "present"])
            /\ UNCHANGED <<users_db, request, response>>

\* The handler of call i has run with result res.
Return(i, res) ==
    /\ request' = calls[i].req
    /\ users_db' = res.db
    /\ response' = res.resp
    /\ calls' = MarkOwners([calls EXCEPT ![i].state = "done", ![i].resp = res.resp], users_db, res.db)
    /\ UNCHANGED nreq

ConcSignup ==
    \E b \in ConcSignups :
        Answer([NoRequest EXCEPT !.op = "signup", !.user_id = b[1], !.password = b[2]],
               ServeSignup(users_db, b[1], b[2]))

ReceiveGet ==
    \E cred \in ConcCredentials :
        Receive([NoRequest EXCEPT !.op = "get", !.username = cred[1], !.cred_password = cred[2], !.user_id = TaroYamada])

ReceiveUpdate ==
    \E cred \in ConcCredentials, body \in ConcPayloads :
        Receive([NoRequest EXCEPT !.op = "update", !.username = cred[1], !.cred_password = cred[2], !.user_id = TaroYamada, !.nickname = body[1], !.comment = body[2]])

ReceiveClose ==
    \E cred \in ConcCredentials :
        Receive([NoRequest EXCEPT !.op = "close", !.username = cred[1], !.cred_password = cred[2]])

RunGet ==
    \E i \in DOMAIN calls :
        /\ Pending(i) /\ calls[i].req.op = "get"
        /\ Return(i, get_user_info(users_db, calls[i].req.user_id, calls[i].user))

RunUpdate ==
    \E i \in DOMAIN calls :
        /\ Pending(i) /\ calls[i].req.op = "update"
        /\ Return(i, update_user_info(users_db, calls[i].req.user_id, calls[i].req.nickname, calls[i].req.comment, calls[i].user))

RunClose ==
    \E i \in DOMAIN calls :
        /\ Pending(i) /\ calls[i].req.op = "close"
        /\ Return(i, close_account(users_db, calls[i].user))

NextConc == ConcSignup \/ ReceiveGet \/ ReceiveUpdate \/ ReceiveClose \/ RunGet \/ RunUpdate \/ RunClose

SpecConc == Init /\ [][NextConc]_vars

----------------------------------------------------------------------------
\* Vocabulary of the properties, stated on requests and responses and
\* independently of the handlers above.

AuthRoutes == {"get", "update", "close"}

\* The credentials of req name a record of db and carry its password.
Authenticates(db, req) == req.username \in DOMAIN db /\ db[req.username].password = req.cred_password

AlnumCodes == (48..57) \cup (65..90) \cup (97..122)

WordCodes == AlnumCodes \cup {95}

GraphCodes == 33..126

AllIn(s, codes) == \A i \in 1..Len(s) : s[i] \in codes

\* The PATCH body respects the length bounds of its schema.
WithinBounds(req) ==
    /\ (req.nickname # None => Len(Value(req.nickname)) <= 30)
    /\ (req.comment # None => Len(Value(req.comment)) <= 100)

AuthErrorResponse == [status |-> 401, message |-> "Authentication failed", cause |-> "", headers |-> {<<"WWW-Authenticate", "Basic">>}, user |-> {}]

----------------------------------------------------------------------------
\* C1 (as stated): every updateProfile whose authenticated caller differs
\* from the target user_id fails with ForbiddenError (403) and changes no
\* record, whatever the payload.
C1_NonOwnerAlwaysForbidden ==
    [][(request'.op = "update" /\ Authenticates(users_db, request') /\ request'.username # request'.user_id)
        => (response'.status = 403 /\ users_db' = users_db)]_vars

\* C1 (amended): an updateProfile whose authenticated caller differs from
\* the target user_id changes no record; it fails with ForbiddenError (403)
\* when its payload respects the schema's length bounds, whether or not the
\* target exists, and with the request validation error (422) otherwise.
C1_NonOwnerForbidden ==
    [][(request'.op = "update" /\ Authenticates(users_db, request') /\ request'.username # request'.user_id)
        => /\ users_db' = users_db
           /\ response'.status = (IF WithinBounds(request') THEN 403 ELSE 422)]_vars

\* A non-owner with valid credentials and a valid payload was refused on an
\* existing target.
C1_Witness ==
    /\ request.op = "update"
    /\ Authenticates(users_db, request)
    /\ request.username # request.user_id
    /\ request.user_id \in DOMAIN users_db
    /\ request.nickname # None
    /\ WithinBounds(request)
    /\ response.status = 403

----------------------------------------------------------------------------
\* A seeded account that is absent from the store has been closed and not
\* signed up again since.
Closed(db, user_id) == user_id \in DOMAIN users_db_init /\ user_id \notin DOMAIN db

\* The request carries credentials that authenticate, or the credentials
\* with which the closed owner of its target used to authenticate.
OnceValidCredentials(db, req) ==
    \/ Authenticates(db, req)
    \/ req.username = req.user_id /\ Authenticates(users_db_init, req)

\* C2 (as stated): after a successful closeAccount by u and until a signup
\* re-creates u, every getProfile and every updateProfile against u returns
\* NotFoundError (404), whichever credentials the request carries: those of
\* another user, or those u closed the account with.
C2_ClosedAlwaysNotFound ==
    [][(request'.op \in {"get", "update"} /\ Closed(users_db, request'.user_id) /\ OnceValidCredentials(users_db, request'))
        => response'.status = 404]_vars

\* C2 (amended): while user_id u is absent from the store (in particular
\* after a successful closeAccount by u and until a signup re-creates u), a
\* getProfile against u returns NotFoundError (404) when its credentials
\* authenticate and AuthError (401) when they do not, as with u's own
\* credentials; an updateProfile against u never succeeds: it returns
\* AuthError (401), or, for an authenticated caller, who cannot be u, the
\* validation error (422) or ForbiddenError (403). None changes the store.
C2_ClosedGetNotFound ==
    [][(request'.op \in {"get", "update"} /\ request'.user_id \notin DOMAIN users_db)
        => /\ users_db' = users_db
           /\ response'.status =
                (IF ~Authenticates(users_db, request') THEN 401
                 ELSE IF request'.op = "get" THEN 404
                 ELSE IF WithinBounds(request') THEN 403 ELSE 422)]_vars

\* TaroYamada has closed the account and another user's getProfile against
\* it was answered 404.
C2_Witness ==
    /\ request.op = "get"
    /\ request.user_id = TaroYamada
    /\ Closed(users_db, TaroYamada)
    /\ Authenticates(users_db, request)
    /\ response.status = 404

----------------------------------------------------------------------------
\* C3: every record in the store has a nickname of length 1 to 30 (an
\* updateProfile that supplies an empty nickname is refused and not written).
C3_NicknameLength ==
    \A u \in DOMAIN users_db : Len(users_db[u].nickname) >= 1 /\ Len(users_db[u].nickname) <= 30

----------------------------------------------------------------------------
\* C4: authenticate succeeds, returning the username, exactly when the
\* username is a key of the store and the password equals the stored one;
\* unknown username and wrong password get the same 401 response (status,
\* message and header), and no authenticated route answers 401 otherwise.
C4_AuthenticateUniform ==
    [][request'.op \in AuthRoutes
        => LET auth == authenticate_user(users_db, request'.username, request'.cred_password)
           IN /\ auth.ok <=> Authenticates(users_db, request')
              /\ auth.ok => (auth.user = request'.username /\ response'.status # 401)
              /\ ~auth.ok => (auth.resp = AuthErrorResponse /\ response' = AuthErrorResponse /\ users_db' = users_db)]_vars

\* A known username with a wrong password was refused.
C4_Witness ==
    /\ request.op \in AuthRoutes
    /\ request.username \in DOMAIN users_db
    /\ users_db[request.username].password # request.cred_password
    /\ response = AuthErrorResponse

----------------------------------------------------------------------------
\* C5 (as stated): signup passes validation exactly when user_id is 6 to 20
\* characters of [A-Za-z0-9_] and password is 8 to 20 printable ASCII
\* characters other than space; every other request fails with the
\* validation error and leaves the store alone.
C5_SignupValidationWord ==
    [][request'.op = "signup"
        => LET valid == /\ Len(request'.user_id) \in 6..20 /\ AllIn(request'.user_id, WordCodes)
                        /\ Len(request'.password) \in 8..20 /\ AllIn(request'.password, GraphCodes)
           IN IF valid THEN response'.status # 422
              ELSE response'.status = 422 /\ users_db' = users_db]_vars

\* C5 (amended): the same with user_id restricted to [A-Za-z0-9]: an
\* underscore in user_id is refused.
C5_SignupValidationAlnum ==
    [][request'.op = "signup"
        => LET valid == /\ Len(request'.user_id) \in 6..20 /\ AllIn(request'.user_id, AlnumCodes)
                        /\ Len(request'.password) \in 8..20 /\ AllIn(request'.password, GraphCodes)
           IN IF valid THEN response'.status # 422
              ELSE response'.status = 422 /\ users_db' = users_db]_vars

\* A signup with an underscore in an otherwise valid user_id, and a valid
\* password, was refused by validation.
C5_Witness ==
    /\ request.op = "signup"
    /\ request.user_id = user_1
    /\ Len(request.password) \in 8..20 /\ AllIn(request.password, GraphCodes)
    /\ response.status = 422

----------------------------------------------------------------------------
SignupBodyValid(req) ==
    /\ Len(req.user_id) \in 6..20 /\ AllIn(req.user_id, AlnumCodes)
    /\ Len(req.password) \in 8..20 /\ AllIn(req.password, GraphCodes)

\* C6: a valid signup(user_id, password) on a store without user_id
\* succeeds, and right after any successful signup the store has gained
\* exactly the record of user_id, with nickname = user_id, comment unset and
\* the given password, every other record is unchanged, and the response
\* carries user_id and nickname and no password.
C6_SignupCreatesRecord ==
    [][request'.op = "signup"
        => LET u == request'.user_id
           IN /\ (SignupBodyValid(request') /\ u \notin DOMAIN users_db) => response'.status = 200
              /\ response'.status = 200
                    => /\ u \notin DOMAIN users_db
                       /\ DOMAIN users_db' = DOMAIN users_db \cup {u}
                       /\ users_db'[u] = [password |-> request'.password, nickname |-> u, comment |-> None]
                       /\ \A k \in DOMAIN users_db : users_db'[k] = users_db[k]
                       /\ response'.user = {[user_id |-> u, nickname |-> u]}
                       /\ \A r \in response'.user : "password" \notin DOMAIN r]_vars

\* user01 has just been signed up.
C6_Witness ==
    /\ request.op = "signup"
    /\ request.user_id = user01
    /\ response.status = 200
    /\ user01 \in DOMAIN users_db
    /\ users_db[user01].nickname = user01

----------------------------------------------------------------------------
ConflictResponse == [status |-> 400, message |-> "Account creation failed", cause |-> "Already same user_id is used", headers |-> {}, user |-> {}]

\* C7 (as stated): a signup whose valid user_id is already a key of the
\* store fails with ConflictError (400) whatever the password, and leaves the
\* store unchanged.
C7_DuplicateAlwaysConflict ==
    [][(request'.op = "signup" /\ request'.user_id \in DOMAIN users_db)
        => (response' = ConflictResponse /\ users_db' = users_db)]_vars

\* C7 (amended): a signup whose user_id is already a key of the store,
\* pre-seeded or not, never succeeds and leaves the store unchanged; it
\* fails with ConflictError (400) whatever the password, equal to the stored
\* one or not, as long as the password passes validation, and with the
\* validation error (422) when it does not.
C7_DuplicateConflict ==
    [][(request'.op = "signup" /\ request'.user_id \in DOMAIN users_db)
        => /\ users_db' = users_db
           /\ response' = (IF SignupBodyValid(request') THEN ConflictResponse ELSE RequestValidationError)]_vars

\* A signup for the seeded TaroYamada with a valid password other than the
\* stored one was refused as a duplicate.
C7_Witness ==
    /\ request.op = "signup"
    /\ request.user_id = TaroYamada
    /\ request.password = passw0rd
    /\ response = ConflictResponse
    /\ users_db[TaroYamada] = users_db_init[TaroYamada]

----------------------------------------------------------------------------
\* C8: a getProfile by any authenticated caller changes nothing; on a
\* user_id in the store it returns that record's current nickname and
\* comment, on an absent user_id it returns NotFoundError (404).
C8_GetProfile ==
    [][request'.op = "get"
        => /\ users_db' = users_db
           /\ Authenticates(users_db, request')
                => LET u == request'.user_id
                   IN IF u \in DOMAIN users_db
                      THEN /\ response'.status = 200
                           /\ response'.user = {[user_id |-> u, nickname |-> users_db[u].nickname, comment |-> users_db[u].comment]}
                      ELSE response'.status = 404 /\ response'.user = {}]_vars

\* testuser read TaroYamada's profile after TaroYamada had changed the
\* nickname.
C8_Witness ==
    /\ request.op = "get"
    /\ request.username = testuser
    /\ request.user_id = TaroYamada
    /\ response.status = 200
    /\ \E r \in response.user : r.nickname # TaroNickname /\ r.nickname = users_db[TaroYamada].nickname

----------------------------------------------------------------------------
----------------------------------------------------------------------------
\* C10: a successful closeAccount removes the record of the authenticated
\* caller and nothing else: every other record stays, unchanged; the
\* request carries no input but the credentials.
C10_CloseRemovesCaller ==
    [][request'.op = "close"
        => /\ request'.user_id = <<>>
           /\ response'.status = 200
                => /\ Authenticates(users_db, request')
                   /\ DOMAIN users_db' = DOMAIN users_db \ {request'.username}
                   /\ \A k \in DOMAIN users_db' : users_db'[k] = users_db[k]
           /\ response'.status # 200 => users_db' = users_db]_vars

\* TaroYamada closed the account while other records were in the store.
C10_Witness ==
    /\ request.op = "close"
    /\ request.username = TaroYamada
    /\ response.status = 200
    /\ TaroYamada \notin DOMAIN users_db
    /\ testuser \in DOMAIN users_db

----------------------------------------------------------------------------
\* C11: the stored password of a record never changes while the record is
\* in the store: whatever request is served (getProfile, updateProfile, a
\* failed or duplicate signup, closeAccount by another user), every record
\* that is in the store before and after it keeps its password.
C11_PasswordImmutable ==
    [][\A u \in DOMAIN users_db \cap DOMAIN users_db' : users_db'[u].password = users_db[u].password]_vars

\* TaroYamada's nickname has been changed by an update and the password is
\* the seeded one.
C11_Witness ==
    /\ request.op = "update"
    /\ response.status = 200
    /\ request.user_id = TaroYamada
    /\ users_db[TaroYamada].nickname # TaroNickname
    /\ users_db[TaroYamada].password = PaSSwd4TY

----------------------------------------------------------------------------
\* C12: an updateProfile by the authenticated owner of an existing record
\* with neither nickname nor comment fails with ValidationError (400) and
\* leaves the store unchanged.
C12_EmptyUpdateRejected ==
    [][(/\ request'.op = "update"
        /\ Authenticates(users_db, request')
        /\ request'.username = request'.user_id
        /\ request'.nickname = None
        /\ request'.comment = None)
        => /\ response'.status = 400
           /\ response'.message = "Update failed"
           /\ users_db' = users_db]_vars

\* The owner sent an update without fields and was refused.
C12_Witness ==
    /\ request.op = "update"
    /\ Authenticates(users_db, request)
    /\ request.username = request.user_id
    /\ request.nickname = None
    /\ request.comment = None
    /\ response.status = 400

----------------------------------------------------------------------------
----------------------------------------------------------------------------
\* C14: when every request is served atomically, closeAccount never returns
\* NotFoundError: every closeAccount that passes authentication succeeds.
C14_CloseNeverNotFound ==
    [][request'.op = "close"
        => /\ response'.status # 404
           /\ Authenticates(users_db, request') => response'.status = 200]_vars

\* An authenticated closeAccount succeeded.
C14_Witness ==
    /\ request.op = "close"
    /\ response.status = 200
    /\ request.username \notin DOMAIN users_db

----------------------------------------------------------------------------
\* Vocabulary of the interleaved specification.

\* This step runs the handler body of call i.
Runs(i) == i \in DOMAIN calls /\ calls[i].state = "authenticated" /\ calls'[i].state = "done"

\* This step receives a request and answers it at once.
Answered == nreq' = nreq + 1 /\ Len(calls') = Len(calls)

\* C15: the set of user_ids in the store changes only by a successful
\* signup, which adds exactly the requested user_id, and by a successful
\* closeAccount, which removes exactly the caller; also with authentication
\* and handler body as separate steps, an updateProfile whose owner's record
\* was closed between the two returns NotFoundError (404) and changes
\* nothing, and no getProfile or updateProfile adds or removes a key.
C15_KeySet ==
    [][/\ DOMAIN users_db' # DOMAIN users_db
            => \/ /\ Answered
                  /\ request'.op = "signup" /\ response'.status = 200
                  /\ request'.user_id \notin DOMAIN users_db
                  /\ DOMAIN users_db' = DOMAIN users_db \cup {request'.user_id}
               \/ \E i \in DOMAIN calls :
                     /\ Runs(i)
                     /\ calls[i].req.op = "close" /\ calls'[i].resp.status = 200
                     /\ calls[i].user \in DOMAIN users_db
                     /\ DOMAIN users_db' = DOMAIN users_db \ {calls[i].user}
       /\ \A i \in DOMAIN calls :
            (Runs(i) /\ calls[i].req.op \in {"get", "update"}) => DOMAIN users_db' = DOMAIN users_db
       /\ \A i \in DOMAIN calls :
            (Runs(i) /\ calls[i].req.op = "update" /\ calls[i].req.user_id = calls[i].user /\ calls[i].user \notin DOMAIN users_db)
                => (calls'[i].resp.status = 404 /\ users_db' = users_db)]_vars

\* An owner's update ran after the owner's record had been closed, and was
\* answered 404 without re-creating the record.
C15_Witness ==
    \E i \in DOMAIN calls :
        /\ calls[i].state = "done"
        /\ calls[i].req.op = "update"
        /\ calls[i].req.user_id = calls[i].user
        /\ calls[i].req.nickname # None
        /\ calls[i].owner = "deleted"
        /\ calls[i].resp.status = 404
        /\ calls[i].user \notin DOMAIN users_db

----------------------------------------------------------------------------
\* C16 (as stated): of several closeAccount requests by one user that all
\* passed authentication before any of them deleted the record, one returns
\* Success and each of the others NotFoundError (404): a closeAccount whose
\* caller's record was deleted after its authentication returns 404.
C16_OthersNotFound ==
    \A i \in DOMAIN calls :
        (calls[i].req.op = "close" /\ calls[i].state = "done" /\ calls[i].owner # "present")
            => calls[i].resp.status = 404

\* C16 (amended): a closeAccount whose caller's record was deleted after
\* its authentication, and not re-created by a signup since, returns
\* NotFoundError (404) and changes nothing; every other authenticated
\* closeAccount, one whose caller's record a signup re-created in between
\* included, returns Success and removes the caller's record and no other.
C16_CloseRace ==
    [][\A i \in DOMAIN calls :
        (Runs(i) /\ calls[i].req.op = "close")
            => IF calls[i].owner = "deleted"
               THEN /\ calls[i].user \notin DOMAIN users_db
                    /\ calls'[i].resp.status = 404
                    /\ users_db' = users_db
               ELSE /\ calls[i].user \in DOMAIN users_db
                    /\ calls'[i].resp.status = 200
                    /\ DOMAIN users_db' = DOMAIN users_db \ {calls[i].user}
                    /\ \A k \in DOMAIN users_db' : users_db'[k] = users_db[k]]_vars

\* Two closeAccount requests of one user were both authenticated before
\* either ran; one succeeded and the other was answered 404.
C16_Witness ==
    \E i, j \in DOMAIN calls :
        /\ i # j
        /\ calls[i].req.op = "close" /\ calls[j].req.op = "close"
        /\ calls[i].user = calls[j].user
        /\ calls[i].state = "done" /\ calls[j].state = "done"
        /\ calls[i].resp.status = 200
        /\ calls[j].owner = "deleted" /\ calls[j].resp.status = 404
        /\ testuser \in DOMAIN users_db

----------------------------------------------------------------------------
\* The answer of update_user_info's checks in the order ownership,
\* existence, at-least-one-field.
UpdateStatus(db, c) ==
    IF c.req.user_id # c.user THEN 403
    ELSE IF c.req.user_id \notin DOMAIN db THEN 404
    ELSE IF c.req.nickname = None /\ c.req.comment = None THEN 400
    ELSE 200

\* C17 (as stated): updateProfile checks authentication, then ownership,
\* then existence, then the at-least-one-field rule: bad credentials get
\* AuthError whatever the target and payload, an authenticated non-owner
\* gets ForbiddenError whatever the target and payload, and only the owner
\* gets NotFoundError or the both-fields-absent ValidationError.
C17_CheckOrder ==
    [][/\ (Answered /\ request'.op = "update")
            => IF ~Authenticates(users_db, request') THEN response'.status = 401
               ELSE request'.username # request'.user_id => response'.status = 403
       /\ \A i \in DOMAIN calls :
            (Runs(i) /\ calls[i].req.op = "update") => calls'[i].resp.status = UpdateStatus(users_db, calls[i])]_vars

\* C17 (amended): updateProfile checks authentication, then the length
\* bounds of the body, then ownership, then existence, then the
\* at-least-one-field rule: bad credentials get AuthError whatever the
\* target and payload; an authenticated request with an over-long field
\* gets the validation error (422); otherwise a non-owner gets
\* ForbiddenError also when the target is absent or both fields are absent,
\* and only the owner gets NotFoundError, before the both-fields-absent
\* ValidationError (400).
C17_CheckOrderWithBounds ==
    [][/\ (Answered /\ request'.op = "update")
            => /\ response'.status = (IF ~Authenticates(users_db, request') THEN 401 ELSE 422)
               /\ ~Authenticates(users_db, request') \/ ~WithinBounds(request')
               /\ users_db' = users_db
       /\ (nreq' = nreq + 1 /\ Len(calls') = Len(calls) + 1 /\ calls'[Len(calls')].req.op = "update")
            => (Authenticates(users_db, calls'[Len(calls')].req) /\ WithinBounds(calls'[Len(calls')].req))
       /\ \A i \in DOMAIN calls :
            (Runs(i) /\ calls[i].req.op = "update")
                => /\ calls'[i].resp.status = UpdateStatus(users_db, calls[i])
                   /\ calls'[i].resp.status # 200 => users_db' = users_db]_vars

\* The owner's update without fields ran after the record had been closed:
\* it was answered 404, not 400.
C17_Witness ==
    \E i \in DOMAIN calls :
        /\ calls[i].state = "done"
        /\ calls[i].req.op = "update"
        /\ calls[i].req.user_id = calls[i].user
        /\ calls[i].req.nickname = None /\ calls[i].req.comment = None
        /\ calls[i].user \notin DOMAIN users_db
        /\ calls[i].resp.status = 404

----------------------------------------------------------------------------
\* C18: after a closeAccount by u the credentials u used authenticate no
\* request (401) until u is signed up again; a later valid signup of u
\* succeeds and creates a fresh record (nickname = user_id, comment unset,
\* the new password) that carries nothing over from the closed one.
C18_CloseThenSignup ==
    [][/\ (request.op = "close" /\ response.status = 200 /\ request'.op \in AuthRoutes
            /\ request'.username = request.username /\ request'.cred_password = request.cred_password)
            => (response' = AuthErrorResponse /\ users_db' = users_db)
       /\ (request'.op \in AuthRoutes /\ Closed(users_db, request'.username))
            => (response' = AuthErrorResponse /\ users_db' = users_db)
       /\ (request'.op = "signup" /\ Closed(users_db, request'.user_id) /\ SignupBodyValid(request'))
            => /\ response'.status = 200
               /\ users_db'[request'.user_id] = [password |-> request'.password, nickname |-> request'.user_id, comment |-> None]]_vars

\* TaroYamada, closed, has been signed up again with another password: the
\* record has the new password, the default nickname and no comment.
C18_Witness ==
    /\ request.op = "signup"
    /\ request.user_id = TaroYamada
    /\ response.status = 200
    /\ users_db[TaroYamada] = [password |-> passw0rd, nickname |-> TaroYamada, comment |-> None]
    /\ users_db_init[TaroYamada].password # passw0rd

====
